---- MODULE Spec2Model ----
(***************************************************************************)
(* QR-session attendance protocol of the attendance backend.               *)
(*                                                                         *)
(* The state is the content of the MongoDB collections the handlers read   *)
(* and write (users, students, branches, lectures, attendances), the wall  *)
(* clock, the requests that are between two awaits, and the last response  *)
(* sent on an attendance route.  Handlers are modelled from the point      *)
(* where the route's middleware has called next(): req.user is an input.   *)
(*                                                                         *)
(* Time is in milliseconds since the epoch, as in a JavaScript Date; the   *)
(* server's local time zone is taken to be UTC.  ObjectIds are positive    *)
(* integers; 0 stands for a missing or uncastable id, "undefined" for a    *)
(* missing string field.                                                   *)
(***************************************************************************)
EXTENDS Integers, Sequences, FiniteSets, TLC

VARIABLES
    now,         \* wall clock, new Date() / Date.now()
    ticks,       \* number of clock advances so far (bounds the clock)
    users,       \* _ids of the User documents
    deleted,     \* _ids of the User documents deleted so far (an _id is never reused)
    teachers,    \* Teacher documents, by the _id of their user
    catalogue,   \* subject name in the subjects list of each Branch document
    students,    \* Student documents
    regSection,  \* history: section sent in the request that created the profile
    branches,    \* _ids of the Branch documents
    lectures,    \* Lecture documents, lectures[i]._id = i, in insertion order
    attendance,  \* Attendance documents
    nextId,      \* next fresh Attendance _id
    reqs,        \* requests suspended at an await, by request slot
    last         \* response of an attendance route on its way to the client

vars == <<now, ticks, users, deleted, teachers, catalogue, students, regSection,
          branches, lectures, attendance, nextId, reqs, last>>

\* What the attendance handlers never write
accountVars == <<deleted, teachers, catalogue>>

----------------------------------------------------------------------------
(* Bounds of the model *)

MaxUsers == 1
MaxBranches == 1
MaxLectures == 1
MaxTicks == 2
MaxRecords == 2
MaxReqs == 2
MaxTeachers == 2
MaxIssued == 2
MaxTokens == 2

(* Constants of the program *)

MinuteMs == 60000
HourMs == 60 * MinuteMs
DayMs == 24 * HourMs
lateThreshold == 15 * 60 * 1000
DefaultValidMinutes == 60

Undefined == "undefined"
InvalidDate == 0 - 1      \* new Date(x).getTime() is NaN

\* Accounts: the role an account is registered with is fixed by its _id
UserIds == 1 .. MaxUsers
TeacherIds == MaxUsers + 1 .. MaxUsers + MaxTeachers
AdminId == MaxUsers + MaxTeachers + 1
Accounts == UserIds \cup TeacherIds \cup {AdminId}

RoleOf(u) ==
    IF u \in UserIds THEN "student" ELSE IF u \in TeacherIds THEN "teacher" ELSE "admin"

\* router.use(authorize("teacher", "admin")) after protect
MayUseTeacherRoutes(u) == u \in users /\ RoleOf(u) \in {"teacher", "admin"}

\* lectureCode: the values crypto.randomBytes(16) can return
Tokens == 1 .. MaxTokens
SubjectNames == {"DS", "OS"}
\* ObjectIds a request can name as a branch: the last one never has a document
BranchIds == 1 .. MaxBranches + 1
LectureIds == 1 .. MaxLectures
Statuses == {"present", "absent", "late"}

NoRecord == [_id |-> 0, lecture |-> 0, student |-> 0, status |-> "none", markedAt |-> 0,
             deviceInfo |-> Undefined]
NoResponse == [op |-> "none", status |-> 0, message |-> "", data |-> NoRecord]

\* res.status(status).json({ success, message, data })
Response(op, status, message, data) ==
    [op |-> op, status |-> status, message |-> message, data |-> data]

----------------------------------------------------------------------------
(* Mongoose models *)

\* Paths of studentSchema.  The schema is strict: a path that is not listed is
\* dropped on create and has no getter on a document.
StudentSchemaPaths == {"_id", "user", "rollNumber", "branch", "semester", "qrCode", "createdAt"}

StudentDoc(input) ==
    [p \in (DOMAIN input) \cap StudentSchemaPaths |-> input[p]]

StudentGet(doc, path) ==
    IF path \in StudentSchemaPaths /\ path \in DOMAIN doc THEN doc[path] ELSE Undefined

\* branch is a required ObjectId, semester a required Number with min 1, max 8.
StudentValid(input) ==
    /\ input.branch # 0
    /\ input.semester >= 1
    /\ input.semester <= 8

\* Student.findOne({ user: u })
StudentOf(u) == {s \in students : s.user = u}

HasProfile(u) == StudentOf(u) # {}

ProfileOf(u) == CHOOSE s \in StudentOf(u) : TRUE

\* Attendance.findOne({ lecture: l, student: s })
AttendanceOf(att, l, s) == {a \in att : a.lecture = l /\ a.student = s}

\* attendanceSchema.status: enum with default "present"
StatusValid(st) == st = Undefined \/ st \in Statuses

StatusStored(st) == IF st = Undefined THEN "present" ELSE st

\* An insert into a collection that has no index on (lecture, student)
AttendanceCreateNoIndex(att, id, l, s, st, dev, at) ==
    IF ~StatusValid(st) \/ l = 0 \/ s = 0
      THEN [error |-> "ValidationError", att |-> att, doc |-> NoRecord]
    ELSE LET doc == [_id |-> id, lecture |-> l, student |-> s,
                     status |-> StatusStored(st), markedAt |-> at, deviceInfo |-> dev]
         IN  [error |-> "", att |-> att \cup {doc}, doc |-> doc]

\* Attendance.create(doc): schema validation, then the insert, which the unique
\* index on (lecture, student) rejects with a duplicate-key error (E11000).
\* markedAt defaults to Date.now; location is not modelled.
AttendanceCreate(att, id, l, s, st, dev, at) ==
    IF ~StatusValid(st) \/ l = 0 \/ s = 0
      THEN [error |-> "ValidationError", att |-> att, doc |-> NoRecord]
    ELSE IF AttendanceOf(att, l, s) # {}
      THEN [error |-> "E11000", att |-> att, doc |-> NoRecord]
    ELSE LET doc == [_id |-> id, lecture |-> l, student |-> s,
                     status |-> StatusStored(st), markedAt |-> at, deviceInfo |-> dev]
         IN  [error |-> "", att |-> att \cup {doc}, doc |-> doc]

----------------------------------------------------------------------------
(* scanAttendance *)

MsgInvalidQr == "Invalid QR code format"
MsgExpired == "QR code has expired. Please ask your teacher for a new one."
MsgNoLecture == "Lecture not found or QR code is no longer active"
MsgNoProfile == "Student profile not found"
MsgBranch == "You are not enrolled in this branch"
MsgSemester == "This lecture is for a different semester"
MsgSection == "This lecture is for a different section"
MsgAlready == "Attendance already marked for this lecture"
MsgMarked == "Attendance marked"      \* `Attendance marked as ${status}!`
MsgTypeError == "TypeError"
MsgDuplicateKey == "E11000 duplicate key error"
MsgValidation == "ValidationError"

\* new Date(expiresAt) < new Date(): false when the left side is an Invalid Date
QrExpired(qr, t) == qr.expiresAt # InvalidDate /\ qr.expiresAt < t

\* Lecture.findOne({ qrCodeData: code, isActive: true }): _ids of the matches
LecturesByCode(code) ==
    {i \in 1 .. Len(lectures) : lectures[i].qrCodeData = code /\ lectures[i].isActive}

FirstOf(S) == CHOOSE i \in S : \A j \in S : i <= j

\* .populate("branch"): the Branch document's _id, or 0 (null) when no Branch
\* document has the referenced _id
PopulatedBranch(lec) == IF lec.branch \in branches THEN lec.branch ELSE 0

\* A semester taken from the payload the client sent
PayloadSemester(lec, qr) == qr.semester

\* lecture.semester, the semester the cohort check compares: the payload qr is
\* not read
LectureSemester(lec, qr) == lec.semester

\* A validation without the section check
ScanValidateNoSection(u, qr, t) ==
    LET Reject(status, message) ==
            [pass |-> FALSE, lecture |-> 0, student |-> 0,
             resp |-> Response("scan", status, message, NoRecord)]
        found == LecturesByCode(qr.lectureCode)
        lec == lectures[FirstOf(found)]
        stu == ProfileOf(u)
    IN  IF qr.kind = "text" THEN Reject(400, MsgInvalidQr)
        ELSE IF qr.kind = "null" THEN Reject(500, MsgTypeError)
        ELSE IF QrExpired(qr, t) THEN Reject(400, MsgExpired)
        ELSE IF found = {} THEN Reject(404, MsgNoLecture)
        ELSE IF ~HasProfile(u) THEN Reject(404, MsgNoProfile)
        ELSE IF PopulatedBranch(lec) = 0 THEN Reject(500, MsgTypeError)
        ELSE IF StudentGet(stu, "branch") # PopulatedBranch(lec) THEN Reject(403, MsgBranch)
        ELSE IF StudentGet(stu, "semester") # LectureSemester(lec, qr)
          THEN Reject(403, MsgSemester)
        ELSE [pass |-> TRUE, lecture |-> FirstOf(found), student |-> stu._id,
              resp |-> NoResponse]

\* The handler up to the duplicate check: the response that ends the request,
\* or pass with the resolved lecture and student _ids.
ScanValidate(u, qr, t) ==
    LET Reject(status, message) ==
            [pass |-> FALSE, lecture |-> 0, student |-> 0,
             resp |-> Response("scan", status, message, NoRecord)]
        found == LecturesByCode(qr.lectureCode)
        lec == lectures[FirstOf(found)]
        stu == ProfileOf(u)
    IN  IF qr.kind = "text" THEN Reject(400, MsgInvalidQr)
        ELSE IF qr.kind = "null" THEN Reject(500, MsgTypeError)
        ELSE IF QrExpired(qr, t) THEN Reject(400, MsgExpired)
        ELSE IF found = {} THEN Reject(404, MsgNoLecture)
        ELSE IF ~HasProfile(u) THEN Reject(404, MsgNoProfile)
        ELSE IF PopulatedBranch(lec) = 0 THEN Reject(500, MsgTypeError)
        ELSE IF StudentGet(stu, "branch") # PopulatedBranch(lec) THEN Reject(403, MsgBranch)
        ELSE IF StudentGet(stu, "semester") # LectureSemester(lec, qr)
          THEN Reject(403, MsgSemester)
        ELSE IF StudentGet(stu, "section") # lec.section THEN Reject(403, MsgSection)
        ELSE [pass |-> TRUE, lecture |-> FirstOf(found), student |-> stu._id,
              resp |-> NoResponse]

\* lectureDate.setHours(startHour, startMin, 0, 0) on new Date(lecture.date)
DayStart(t) == t - (t % DayMs)

LectureStart(lec) ==
    DayStart(lec.date) + lec.startTime[1] * HourMs + lec.startTime[2] * MinuteMs

\* A classification that counts the fifteenth minute as late
ScanStatusAtLeast(t, lec) ==
    IF t - LectureStart(lec) >= lateThreshold THEN "late" ELSE "present"

ScanStatus(t, lec) ==
    IF t - LectureStart(lec) > lateThreshold THEN "late" ELSE "present"

\* A rejection that does not carry the existing record
ScanAlreadyMarkedNoData(existing) == Response("scan", 400, MsgAlready, NoRecord)

\* The duplicate check: the 400 response carrying the existing record
ScanAlreadyMarked(existing) == Response("scan", 400, MsgAlready, existing)

\* Attendance.create and the response; a rejected insert is thrown into the
\* handler's catch, which answers 500 with the error's message.
ScanCreate(att, id, l, s, dev, t) ==
    LET c == AttendanceCreate(att, id, l, s, ScanStatus(t, lectures[l]), dev, t)
    IN  IF c.error = "E11000"
          THEN [att |-> att, resp |-> Response("scan", 500, MsgDuplicateKey, NoRecord)]
        ELSE IF c.error # ""
          THEN [att |-> att, resp |-> Response("scan", 500, MsgValidation, NoRecord)]
        ELSE [att |-> c.att, resp |-> Response("scan", 201, MsgMarked, c.doc)]

----------------------------------------------------------------------------
(* markAttendanceManually, updateAttendance, deleteAttendance *)

MsgLectureMissing == "Lecture not found"
MsgManual == "Attendance marked successfully"
MsgNotFound == "Attendance record not found"
MsgUpdated == "Attendance updated successfully"
MsgDeleted == "Attendance deleted successfully"
MsgNoDocument == "DocumentNotFoundError"
MsgCastError == "CastError"

\* A lookup that also refuses a lecture whose QR code has expired
LectureExistsUnexpired(l) == l \in 1 .. Len(lectures) /\ now <= lectures[l].expiresAt

\* Lecture.findById(lectureId)
LectureExists(l) == l \in 1 .. Len(lectures)

RecordOf(S) == IF S = {} THEN NoRecord ELSE CHOOSE a \in S : TRUE

\* attendance.status = status; await attendance.save() on the loaded document:
\* validates the document, writes nothing when the value did not change,
\* and fails when the document is no longer in the collection.
AttendanceSave(att, loaded, st) ==
    IF ~StatusValid(st)
      THEN [error |-> MsgValidation, att |-> att, doc |-> NoRecord]
    ELSE IF StatusStored(st) = loaded.status
      THEN [error |-> "", att |-> att, doc |-> loaded]
    ELSE IF \A a \in att : a._id # loaded._id
      THEN [error |-> MsgNoDocument, att |-> att, doc |-> NoRecord]
    ELSE LET doc == [loaded EXCEPT !.status = StatusStored(st)]
         IN  [error |-> "",
              att |-> {IF a._id = loaded._id THEN [a EXCEPT !.status = StatusStored(st)] ELSE a
                       : a \in att},
              doc |-> doc]

\* A write that inserts a document whether or not one was loaded
MarkWriteInsert(att, id, l, s, st, loaded, t) ==
    LET doc == [_id |-> id, lecture |-> l, student |-> s, status |-> StatusStored(st),
                markedAt |-> t, deviceInfo |-> Undefined]
    IN  [att |-> att \cup {doc}, resp |-> Response("mark", 200, MsgManual, doc)]

\* The handler after Attendance.findOne returned `loaded` (NoRecord for null)
MarkWrite(att, id, l, s, st, loaded, t) ==
    LET w == IF loaded # NoRecord THEN AttendanceSave(att, loaded, st)
             ELSE AttendanceCreate(att, id, l, s, st, Undefined, t)
    IN  IF w.error # ""
          THEN [att |-> att, resp |-> Response("mark", 500, w.error, NoRecord)]
          ELSE [att |-> w.att, resp |-> Response("mark", 200, MsgManual, w.doc)]

----------------------------------------------------------------------------
(* State machine *)

Idle == [op |-> "none", lecture |-> 0, student |-> 0, status |-> "none",
         deviceInfo |-> Undefined, loaded |-> NoRecord]

Semesters == {1, 2}
Sections == {"A", "B"}
StartTimes == {<<0, 0>>}

\* Values of a request body
SectionInputs == {Undefined, "B"}
SemesterInputs == {0}
BranchInputs == BranchIds \cup {0}
ValidMinutesInputs == {[given |-> TRUE, halves |-> 2]}
StatusInputs == Statuses \cup {Undefined, "excused"}
StudentIdInputs == UserIds \cup {0}
DeviceInputs == {"phone"}

\* x || d, for a number (0 also stands for a missing value) and for a string
OrNum(x, d) == IF x = 0 THEN d ELSE x

OrStr(x, d) == IF x = Undefined THEN d ELSE x

Init ==
    /\ now = 0
    /\ ticks = 0
    /\ users = {}
    /\ deleted = {}
    /\ teachers = {}
    /\ catalogue = [b \in 1 .. MaxBranches |-> "none"]
    /\ students = {}
    /\ regSection = [u \in UserIds |-> "none"]
    /\ branches = {}
    /\ lectures = <<>>
    /\ attendance = {}
    /\ nextId = 1
    /\ reqs = [r \in 1 .. MaxReqs |-> Idle]
    /\ last = NoResponse

\* The client receives the response; requests are served one after the other.
Deliver ==
    /\ last # NoResponse
    /\ last' = NoResponse
    /\ UNCHANGED <<accountVars, now, ticks, users, students, regSection, branches, lectures,
                   attendance, nextId, reqs>>

Ready == last = NoResponse

Tick ==
    /\ Ready
    /\ ticks < MaxTicks
    /\ ticks' = ticks + 1
    /\ now' = now + MinuteMs
    /\ UNCHANGED <<accountVars, users, students, regSection, branches, lectures,
                   attendance, nextId, reqs, last>>

\* User.create, then Student.create for the role "student"; a failed
\* Student.create leaves the User document behind.
CreateStudentAccount(u, b, sem, sec) ==
    LET input == [_id |-> u, user |-> u, branch |-> b,
                  semester |-> OrNum(sem, 1), section |-> OrStr(sec, "A")]
    IN  /\ Ready
        /\ u \in UserIds
        /\ u \notin users \cup deleted
        /\ users' = users \cup {u}
        /\ IF StudentValid(input)
             THEN /\ students' = students \cup {StudentDoc(input)}
                  /\ regSection' = [regSection EXCEPT ![u] = input.section]
             ELSE UNCHANGED <<students, regSection>>
        /\ UNCHANGED <<accountVars, now, ticks, branches, lectures, attendance, nextId,
                       reqs, last>>

\* User.create, then Teacher.create for the role "teacher"; for the role
\* "admin" the User document only.
CreateStaffAccount(u) ==
    /\ Ready
    /\ u \in TeacherIds \cup {AdminId}
    /\ u \notin users \cup deleted
    /\ users' = users \cup {u}
    /\ teachers' = IF RoleOf(u) = "teacher" THEN teachers \cup {u} ELSE teachers
    /\ UNCHANGED <<deleted, catalogue, now, ticks, students, regSection, branches,
                   lectures, attendance, nextId, reqs, last>>

register(u, b, sem, sec) ==
    IF RoleOf(u) = "student" THEN CreateStudentAccount(u, b, sem, sec)
                             ELSE CreateStaffAccount(u)

createUser(u, b, sem, sec) ==
    IF RoleOf(u) = "student" THEN CreateStudentAccount(u, b, sem, sec)
                             ELSE CreateStaffAccount(u)

\* User.findByIdAndUpdate, then Student/Teacher.findOneAndUpdate with upsert for
\* the role named in the body (here the account's own role, or none); the
\* update is cast by the strict schema and no validator runs on it.
updateUser(u, role, b, sem) ==
    LET old == StudentOf(u)
        doc == StudentDoc([_id |-> u, user |-> u, branch |-> b, semester |-> sem])
    IN  /\ Ready
        /\ u \in users
        /\ role \in {Undefined, RoleOf(u)}
        /\ students' = IF role = "student" THEN (students \ old) \cup {doc} ELSE students
        /\ teachers' = IF role = "teacher" THEN teachers \cup {u} ELSE teachers
        /\ UNCHANGED <<deleted, catalogue, now, ticks, users, regSection, branches,
                       lectures, attendance, nextId, reqs, last>>

\* User.findById, Student.findOneAndDelete, Teacher.findOneAndDelete, deleteOne
deleteUser(u) ==
    /\ Ready
    /\ u \in users
    /\ users' = users \ {u}
    /\ deleted' = deleted \cup {u}
    /\ students' = students \ StudentOf(u)
    /\ teachers' = teachers \ {u}
    /\ UNCHANGED <<catalogue, now, ticks, regSection, branches, lectures, attendance,
                   nextId, reqs, last>>

createBranch(b, subj) ==
    /\ Ready
    /\ b \in 1 .. MaxBranches
    /\ b \notin branches
    /\ branches' = branches \cup {b}
    /\ catalogue' = [catalogue EXCEPT ![b] = subj]
    /\ UNCHANGED <<deleted, teachers, now, ticks, users, students, regSection, lectures,
                   attendance, nextId, reqs, last>>

\* An update of the catalogue that also rewrites the subject of the branch's
\* lectures, as a live reference to the catalogue would
updateBranchLive(b, subj) ==
    /\ Ready
    /\ b \in branches
    /\ catalogue' = [catalogue EXCEPT ![b] = subj]
    /\ lectures' = [i \in 1 .. Len(lectures) |->
                      IF lectures[i].branch = b
                        THEN [lectures[i] EXCEPT !.subject = subj]
                        ELSE lectures[i]]
    /\ UNCHANGED <<deleted, teachers, now, ticks, users, students, regSection, branches,
                   attendance, nextId, reqs, last>>

\* Branch.findByIdAndUpdate(id, req.body)
updateBranch(b, subj) ==
    /\ Ready
    /\ b \in branches
    /\ catalogue' = [catalogue EXCEPT ![b] = subj]
    /\ UNCHANGED <<deleted, teachers, now, ticks, users, students, regSection, branches,
                   lectures, attendance, nextId, reqs, last>>

deleteBranch(b) ==
    /\ Ready
    /\ b \in branches
    /\ \A s \in students : s.branch # b
    /\ branches' = branches \ {b}
    /\ catalogue' = [catalogue EXCEPT ![b] = "none"]
    /\ UNCHANGED <<deleted, teachers, now, ticks, users, students, regSection, lectures,
                   attendance, nextId, reqs, last>>

\* expiresAt.getMinutes(), local time being UTC
getMinutes(t) == (t % HourMs) \div MinuteMs

\* A validMinutes of the request body, in half minutes (3 is 1.5), or none
NoMinutes == [given |-> FALSE, halves |-> 0]

Minutes(h) == [given |-> TRUE, halves |-> h]

\* validMinutes || 60: undefined and 0 are falsy
EffectiveHalves(vm) ==
    IF ~vm.given \/ vm.halves = 0 THEN 2 * DefaultValidMinutes ELSE vm.halves

\* ToIntegerOrInfinity of h / 2, which setMinutes applies to its argument
TruncHalves(h) == IF h >= 0 THEN h \div 2 ELSE 0 - ((0 - h) \div 2)

\* expiresAt = new Date(); expiresAt.setMinutes(expiresAt.getMinutes() + (validMinutes || 60))
ExpiresAt(t, vm) ==
    t - getMinutes(t) * MinuteMs
      + TruncHalves(2 * getMinutes(t) + EffectiveHalves(vm)) * MinuteMs

MsgNoTeacher == "Teacher profile not found"
MsgGenerated == "QR Code generated successfully"

\* A lookup that finds a profile for every account
TeacherFindOneAny(ts, u) == TRUE

\* Teacher.findOne({ user: req.user._id }) is not null
TeacherFindOne(ts, u) == u \in ts

\* A write that overwrites the newest lecture instead of adding one
LectureCreateOverwriting(lecs, lec) ==
    IF lecs = <<>> THEN <<lec>> ELSE [lecs EXCEPT ![Len(lecs)] = lec]

\* Lecture.create({...}): one more document of the collection
LectureCreate(lecs, lec) == Append(lecs, lec)

\* code is the value crypto.randomBytes returns for this request
generateLectureQR(by, b, sem, sec, st, vm, code, subj) ==
    LET expiresAt == ExpiresAt(now, vm)
        lec == [teacher |-> by, branch |-> b, subject |-> subj, semester |-> sem,
                section |-> OrStr(sec, "A"), date |-> now, startTime |-> st,
                qrCode |-> [lectureCode |-> code, semester |-> sem, expiresAt |-> expiresAt],
                qrCodeData |-> code, isActive |-> TRUE, expiresAt |-> expiresAt]
    IN  /\ Ready
        /\ MayUseTeacherRoutes(by)
        /\ IF ~TeacherFindOne(teachers, by)
             THEN /\ last' = Response("generate", 404, MsgNoTeacher, NoRecord)
                  /\ UNCHANGED lectures
           ELSE IF b = 0
             THEN /\ last' = Response("generate", 500, MsgValidation, NoRecord)
                  /\ UNCHANGED lectures
           ELSE /\ last' = Response("generate", 201, MsgGenerated, NoRecord)
                /\ lectures' = LectureCreate(lectures, lec)
        /\ UNCHANGED <<accountVars, now, ticks, users, students, regSection, branches,
                       attendance, nextId, reqs>>

\* The QR payloads a client can send: any text, JSON null, and objects with any
\* lectureCode and expiresAt (the issued ones, a later time, none).
QrInputs ==
    {[kind |-> "text", lectureCode |-> 0, semester |-> 0, expiresAt |-> InvalidDate],
     [kind |-> "null", lectureCode |-> 0, semester |-> 0, expiresAt |-> InvalidDate]}
    \cup [kind : {"object"}, lectureCode : 0 .. MaxTokens, semester : Semesters,
          expiresAt : {InvalidDate, (MaxTicks + 1) * MinuteMs}
                      \cup {lectures[i].expiresAt : i \in 1 .. Len(lectures)}]

\* scanAttendance, the whole handler without interleaving
scanAttendance(u, qr, dev) ==
    LET v == ScanValidate(u, qr, now)
        existing == AttendanceOf(attendance, v.lecture, v.student)
        c == ScanCreate(attendance, nextId, v.lecture, v.student, dev, now)
    IN  /\ Ready
        /\ u \in users
        /\ IF ~v.pass
             THEN /\ last' = v.resp
                  /\ UNCHANGED <<attendance, nextId>>
           ELSE IF existing # {}
             THEN /\ last' = ScanAlreadyMarked(RecordOf(existing))
                  /\ UNCHANGED <<attendance, nextId>>
           ELSE /\ nextId <= MaxRecords
                /\ last' = c.resp
                /\ attendance' = c.att
                /\ nextId' = nextId + 1
        /\ UNCHANGED <<accountVars, now, ticks, users, students, regSection, branches, lectures, reqs>>

\* markAttendanceManually, the whole handler without interleaving
markAttendanceManually(by, l, s, st) ==
    LET loaded == RecordOf(AttendanceOf(attendance, l, s))
        w == MarkWrite(attendance, nextId, l, s, st, loaded, now)
    IN  /\ Ready
        /\ MayUseTeacherRoutes(by)
        /\ IF ~LectureExists(l)
             THEN /\ last' = Response("mark", 404, MsgLectureMissing, NoRecord)
                  /\ UNCHANGED <<attendance, nextId>>
           ELSE IF s = 0
             THEN /\ last' = Response("mark", 500, MsgCastError, NoRecord)
                  /\ UNCHANGED <<attendance, nextId>>
           ELSE /\ loaded = NoRecord => nextId <= MaxRecords
                /\ last' = w.resp
                /\ attendance' = w.att
                /\ nextId' = IF w.att = attendance \/ loaded # NoRecord THEN nextId ELSE nextId + 1
        /\ UNCHANGED <<accountVars, now, ticks, users, students, regSection, branches, lectures, reqs>>

\* Attendance.findByIdAndUpdate(id, { status }, { new: true }): no validators run
updateAttendance(by, id, st) ==
    LET hit == {a \in attendance : a._id = id}
        doc == [RecordOf(hit) EXCEPT !.status = st]
    IN  /\ Ready
        /\ MayUseTeacherRoutes(by)
        /\ IF hit = {}
             THEN /\ last' = Response("update", 404, MsgNotFound, NoRecord)
                  /\ UNCHANGED attendance
             ELSE /\ last' = Response("update", 200, MsgUpdated, doc)
                  /\ attendance' = (attendance \ hit) \cup {doc}
        /\ UNCHANGED <<accountVars, now, ticks, users, students, regSection, branches, lectures,
                       nextId, reqs>>

\* Attendance.findByIdAndDelete(id)
deleteAttendance(by, id) ==
    LET hit == {a \in attendance : a._id = id}
    IN  /\ Ready
        /\ MayUseTeacherRoutes(by)
        /\ IF hit = {}
             THEN last' = Response("delete", 404, MsgNotFound, NoRecord)
             ELSE last' = Response("delete", 200, MsgDeleted, NoRecord)
        /\ attendance' = attendance \ hit
        /\ UNCHANGED <<accountVars, now, ticks, users, students, regSection, branches, lectures,
                       nextId, reqs>>

\* Inputs of the sequential specification: one teacher, one token, one subject
SpecStaff == {MaxUsers + 1}
SpecTokens == {1}
SpecSubjects == {"DS"}

Next ==
    \/ Deliver
    \/ Tick
    \/ \E u \in UserIds \cup SpecStaff, b \in BranchInputs, sem \in SemesterInputs,
           sec \in SectionInputs :
          register(u, b, sem, sec)
    \/ \E u \in UserIds \cup SpecStaff, b \in BranchInputs, sem \in SemesterInputs,
           sec \in SectionInputs :
          createUser(u, b, sem, sec)
    \/ \E u \in UserIds \cup SpecStaff, role \in {Undefined, "student", "teacher"},
           b \in BranchIds, sem \in Semesters :
          updateUser(u, role, b, sem)
    \/ \E u \in UserIds \cup SpecStaff : deleteUser(u)
    \/ \E b \in BranchIds, subj \in SpecSubjects : createBranch(b, subj)
    \/ \E b \in BranchIds, subj \in SubjectNames : updateBranch(b, subj)
    \/ \E b \in BranchIds : deleteBranch(b)
    \/ /\ Len(lectures) < MaxLectures
       /\ \E by \in SpecStaff, b \in BranchInputs, sem \in Semesters, sec \in SectionInputs,
              st \in StartTimes, vm \in ValidMinutesInputs, code \in SpecTokens,
              subj \in SpecSubjects :
             generateLectureQR(by, b, sem, sec, st, vm, code, subj)
    \/ \E u \in UserIds, qr \in QrInputs, dev \in DeviceInputs : scanAttendance(u, qr, dev)
    \/ \E by \in SpecStaff, l \in LectureIds, s \in StudentIdInputs, st \in StatusInputs :
          markAttendanceManually(by, l, s, st)
    \/ \E by \in SpecStaff, id \in 1 .. MaxRecords, st \in StatusInputs \ {Undefined} :
          updateAttendance(by, id, st)
    \/ \E by \in SpecStaff, id \in 1 .. MaxRecords : deleteAttendance(by, id)

Spec == Init /\ [][Next]_vars

----------------------------------------------------------------------------
(* The attendance recorder under concurrent requests: every await of the     *)
(* duplicate check and of the write is a step of its own.  The store holds   *)
(* lectures and profiles created before; a scan enters at its duplicate      *)
(* check, with the lecture and the student its earlier checks resolved.      *)

RecorderStartTimes == {<<0, 0>>, <<0, 1>>, <<1, 0>>}
RecorderDates == {0, DayMs + 1000}
RecorderOffsets == {lateThreshold - 1, lateThreshold, lateThreshold + 1}

RecorderLecture(d, st) ==
    [teacher |-> MaxUsers + 1, branch |-> 1, subject |-> "DS", semester |-> 1,
     section |-> "A", date |-> d, startTime |-> st,
     qrCode |-> [lectureCode |-> 1, semester |-> 1, expiresAt |-> ExpiresAt(d, NoMinutes)],
     qrCodeData |-> 1, isActive |-> TRUE, expiresAt |-> ExpiresAt(d, NoMinutes)]

InitRecorder ==
    /\ \E d \in RecorderDates, st \in RecorderStartTimes, o \in RecorderOffsets :
          /\ lectures = <<RecorderLecture(d, st)>>
          /\ now = DayStart(d) + o
    /\ ticks = 0
    /\ users = UserIds \cup {MaxUsers + 1}
    /\ deleted = {}
    /\ teachers = {MaxUsers + 1}
    /\ catalogue = [b \in 1 .. MaxBranches |-> "DS"]
    /\ students = {StudentDoc([_id |-> u, user |-> u, branch |-> 1, semester |-> 1,
                               section |-> "A"]) : u \in UserIds}
    /\ regSection = [u \in UserIds |-> "A"]
    /\ branches = {1}
    /\ attendance = {}
    /\ nextId = 1
    /\ reqs = [r \in 1 .. MaxReqs |-> Idle]
    /\ last = NoResponse

\* Attendance.findOne of scanAttendance for the resolved lecture l and student s
ScanFind(r, l, s, dev) ==
    LET existing == AttendanceOf(attendance, l, s)
    IN  /\ Ready
        /\ reqs[r] = Idle
        /\ LectureExists(l)
        /\ \E d \in students : d._id = s
        /\ IF existing # {}
             THEN /\ last' = ScanAlreadyMarked(RecordOf(existing))
                  /\ UNCHANGED reqs
             ELSE /\ reqs' = [reqs EXCEPT ![r] = [Idle EXCEPT !.op = "scan", !.lecture = l,
                                                              !.student = s, !.deviceInfo = dev]]
                  /\ UNCHANGED last
        /\ UNCHANGED <<accountVars, now, ticks, users, students, regSection, branches, lectures,
                       attendance, nextId>>

\* Attendance.create of scanAttendance and the response
ScanInsert(r) ==
    LET q == reqs[r]
        c == ScanCreate(attendance, nextId, q.lecture, q.student, q.deviceInfo, now)
    IN  /\ Ready
        /\ q.op = "scan"
        /\ AttendanceOf(attendance, q.lecture, q.student) = {} => nextId <= MaxRecords
        /\ last' = c.resp
        /\ attendance' = c.att
        /\ nextId' = IF c.att = attendance THEN nextId ELSE nextId + 1
        /\ reqs' = [reqs EXCEPT ![r] = Idle]
        /\ UNCHANGED <<accountVars, now, ticks, users, students, regSection, branches, lectures>>

\* Lecture.findById and Attendance.findOne of markAttendanceManually
MarkFind(r, l, s, st) ==
    /\ Ready
    /\ reqs[r] = Idle
    /\ IF ~LectureExists(l)
         THEN /\ last' = Response("mark", 404, MsgLectureMissing, NoRecord)
              /\ UNCHANGED reqs
       ELSE IF s = 0
         THEN /\ last' = Response("mark", 500, MsgCastError, NoRecord)
              /\ UNCHANGED reqs
       ELSE /\ reqs' = [reqs EXCEPT ![r] =
                           [Idle EXCEPT !.op = "mark", !.lecture = l, !.student = s,
                                        !.status = st,
                                        !.loaded = RecordOf(AttendanceOf(attendance, l, s))]]
            /\ UNCHANGED last
    /\ UNCHANGED <<accountVars, now, ticks, users, students, regSection, branches, lectures,
                   attendance, nextId>>

\* attendance.save() or Attendance.create of markAttendanceManually and the response
MarkSave(r) ==
    LET q == reqs[r]
        w == MarkWrite(attendance, nextId, q.lecture, q.student, q.status, q.loaded, now)
    IN  /\ Ready
        /\ q.op = "mark"
        /\ (q.loaded = NoRecord /\ AttendanceOf(attendance, q.lecture, q.student) = {})
              => nextId <= MaxRecords
        /\ last' = w.resp
        /\ attendance' = w.att
        /\ nextId' = IF w.att = attendance \/ q.loaded # NoRecord THEN nextId ELSE nextId + 1
        /\ reqs' = [reqs EXCEPT ![r] = Idle]
        /\ UNCHANGED <<accountVars, now, ticks, users, students, regSection, branches, lectures>>

NextRecorder ==
    \/ Deliver
    \/ Tick
    \/ \E r \in 1 .. MaxReqs, l \in LectureIds, s \in UserIds, dev \in DeviceInputs :
          ScanFind(r, l, s, dev)
    \/ \E r \in 1 .. MaxReqs : ScanInsert(r)
    \/ \E r \in 1 .. MaxReqs, l \in LectureIds, s \in StudentIdInputs, st \in StatusInputs :
          MarkFind(r, l, s, st)
    \/ \E r \in 1 .. MaxReqs : MarkSave(r)

SpecRecorder == InitRecorder /\ [][NextRecorder]_vars

----------------------------------------------------------------------------
(* The teacher routes: several staff accounts issue lectures and manage the  *)
(* attendance of each other's lectures.  Students appear only as the ids a   *)
(* manual mark names.                                                        *)

Staff == TeacherIds \cup {AdminId}
IssuedIds == 1 .. MaxIssued

\* Requests to generate a lecture: <<section, validMinutes, lectureCode drawn>>,
\* with validMinutes none, 0, -1, 1.5, 1 and 2
IssuerRequests ==
    {<<Undefined, NoMinutes, 1>>, <<"B", Minutes(0), 2>>, <<"B", Minutes(0 - 2), 1>>,
     <<Undefined, Minutes(3), 2>>, <<"B", Minutes(2), 1>>, <<Undefined, Minutes(4), 2>>}
IssuerStatuses == {"absent"}
IssuerTicks == 1

NextIssuer ==
    \/ Deliver
    \/ ticks < IssuerTicks /\ Tick
    \/ \E u \in Staff : register(u, 0, 0, Undefined)
    \/ /\ Len(lectures) < MaxIssued
       /\ \E by \in Staff, rq \in IssuerRequests :
             generateLectureQR(by, 1, 1, rq[1], <<0, 0>>, rq[2], rq[3], "DS")
    \/ \E by \in Staff, l \in IssuedIds, s \in UserIds, st \in IssuerStatuses :
          markAttendanceManually(by, l, s, st)
    \/ \E by \in Staff, id \in 1 .. MaxRecords : updateAttendance(by, id, "late")
    \/ \E by \in Staff, id \in 1 .. MaxRecords : deleteAttendance(by, id)

SpecIssuer == Init /\ [][NextIssuer]_vars

----------------------------------------------------------------------------
(* Properties of scanAttendance, requests served one after the other *)

\* The scan requests of a step: account, payload and device of a scanAttendance step
ScanInputs == UserIds \X QrInputs \X DeviceInputs

\* The lecture a payload names: the persisted lecture that carries its lectureCode
NamedLectures(qr) ==
    {i \in 1 .. Len(lectures) : qr.kind = "object" /\ lectures[i].qrCodeData = qr.lectureCode}

\* C3: a scan processed after the persisted lecture's expiresAt is rejected as
\* expired and creates no record, whatever expiresAt the payload carries.
C3_ExpiredWhateverPayload ==
    [][\A in \in ScanInputs :
         (/\ scanAttendance(in[1], in[2], in[3])
          /\ \E i \in NamedLectures(in[2]) : now > lectures[i].expiresAt)
         => (last'.message = MsgExpired /\ attendance' = attendance)]_vars

\* The eight checks of the eligibility validator, as predicates of a request in
\* the current state: TRUE when the request fails the check.
NamedActive(qr) == {i \in NamedLectures(qr) : lectures[i].isActive}

FailsMalformed(qr) == qr.kind # "object"

FailsPayloadExpiry(qr) == qr.expiresAt # InvalidDate /\ now > qr.expiresAt

FailsLecture(qr) == NamedActive(qr) = {}

FailsProfile(u) == \A d \in students : d.user # u

FailsBranch(u, qr) ==
    \E d \in students, i \in NamedActive(qr) : d.user = u /\ d.branch # lectures[i].branch

FailsSemester(u, qr) ==
    \E d \in students, i \in NamedActive(qr) : d.user = u /\ d.semester # lectures[i].semester

\* the section a profile has is the one its document holds
FailsSection(u, qr) ==
    \E d \in students, i \in NamedActive(qr) :
        d.user = u /\ (("section" \notin DOMAIN d) \/ d.section # lectures[i].section)

FailsAlreadyMarked(u, qr) ==
    \E d \in students, i \in NamedActive(qr), a \in attendance :
        d.user = u /\ a.lecture = i /\ a.student = d._id

EarliestFailure(u, qr) ==
    IF FailsMalformed(qr) THEN MsgInvalidQr
    ELSE IF FailsPayloadExpiry(qr) THEN MsgExpired
    ELSE IF FailsLecture(qr) THEN MsgNoLecture
    ELSE IF FailsProfile(u) THEN MsgNoProfile
    ELSE IF FailsBranch(u, qr) THEN MsgBranch
    ELSE IF FailsSemester(u, qr) THEN MsgSemester
    ELSE IF FailsSection(u, qr) THEN MsgSection
    ELSE IF FailsAlreadyMarked(u, qr) THEN MsgAlready
    ELSE MsgMarked

\* C4: the response of a scan is that of the earliest failing check in the order
\* malformed, payload expired, lecture not found or inactive, profile not found,
\* branch, semester, section mismatch, already marked.
C4_EarliestFailingCheck ==
    [][\A in \in ScanInputs :
         scanAttendance(in[1], in[2], in[3])
         => last'.message = EarliestFailure(in[1], in[2])]_vars

\* A scan reaches the cohort checks when the first four checks pass
ReachesCohortChecks(u, qr) ==
    /\ ~FailsMalformed(qr)
    /\ ~FailsPayloadExpiry(qr)
    /\ ~FailsLecture(qr)
    /\ ~FailsProfile(u)

\* C5: a scan that reaches the cohort checks with a student whose branch,
\* semester or section differs from the lecture's is rejected with the mismatch
\* reason of the first differing dimension and creates no record.
C5_CohortGating ==
    [][\A in \in ScanInputs :
         (scanAttendance(in[1], in[2], in[3]) /\ ReachesCohortChecks(in[1], in[2]))
         => /\ FailsBranch(in[1], in[2]) => last'.message = MsgBranch
            /\ (~FailsBranch(in[1], in[2]) /\ FailsSemester(in[1], in[2]))
                 => last'.message = MsgSemester
            /\ (~FailsBranch(in[1], in[2]) /\ ~FailsSemester(in[1], in[2])
                  /\ FailsSection(in[1], in[2]))
                 => last'.message = MsgSection
            /\ (FailsBranch(in[1], in[2]) \/ FailsSemester(in[1], in[2])
                  \/ FailsSection(in[1], in[2]))
                 => attendance' = attendance]_vars

\* The payload generateLectureQR issued for lecture i
IssuedPayload(i) ==
    [kind |-> "object", lectureCode |-> lectures[i].qrCodeData,
     semester |-> lectures[i].semester,
     expiresAt |-> lectures[i].expiresAt]

\* Account u was created with the branch, semester and section of lecture i, the
\* lecture is active and unexpired, its branch exists, and u has no record for it.
EligibleFor(u, i) ==
    /\ lectures[i].isActive
    /\ now < lectures[i].expiresAt
    /\ lectures[i].branch \in branches
    /\ \E d \in students :
          /\ d.user = u
          /\ d.branch = lectures[i].branch
          /\ d.semester = lectures[i].semester
          /\ regSection[u] = lectures[i].section
          /\ AttendanceOf(attendance, i, d._id) = {}

\* C6: a student registered in the lecture's cohort who scans the issued payload
\* of an active, unexpired lecture is admitted and gets exactly one record.
C6_EligibleStudentAdmitted ==
    [][\A u \in UserIds, i \in 1 .. Len(lectures), dev \in DeviceInputs :
         (scanAttendance(u, IssuedPayload(i), dev) /\ EligibleFor(u, i))
         => /\ last'.status = 201
            /\ \E d \in students :
                  d.user = u /\ Cardinality(AttendanceOf(attendance', i, d._id)) = 1]_vars

----------------------------------------------------------------------------
(* Properties of markAttendanceManually, requests served one after the other *)

RecordsFor(att, l, s) == {a \in att : a.lecture = l /\ a.student = s}

\* C9: a manual mark of an existing lecture and a student with status s2 leaves
\* exactly one record for the pair, with status s2; when an earlier mark created
\* a record, it is that record (same _id, same markedAt) that carries s2.
C9_ManualMarkUpserts ==
    [][\A by \in Accounts, l \in LectureIds, s \in UserIds, s2 \in Statuses :
         (markAttendanceManually(by, l, s, s2) /\ l \in 1 .. Len(lectures))
         => /\ last'.status = 200
            /\ Cardinality(RecordsFor(attendance', l, s)) = 1
            /\ \A a \in RecordsFor(attendance', l, s) :
                  /\ a.status = s2
                  /\ last'.data = a
                  /\ \A b \in RecordsFor(attendance, l, s) :
                        a._id = b._id /\ a.markedAt = b.markedAt]_vars

\* A second manual mark has answered with the record an earlier one created
C9_SecondMarkUpdated ==
    /\ last.op = "mark"
    /\ last.status = 200
    /\ last.data.status = "absent"
    /\ last.data.deviceInfo = Undefined
    /\ last.data.markedAt < now
    /\ attendance = {last.data}

\* The student s is not in the cohort of lecture l: no profile, or a profile of
\* another branch or semester or registered with another section
OutsideCohort(l, s) ==
    \A d \in students :
        d._id = s => \/ d.branch # lectures[l].branch
                     \/ d.semester # lectures[l].semester
                     \/ regSection[d.user] # lectures[l].section

\* C10: a manual mark of an existing lecture is carried out also when the
\* lecture's expiresAt has passed and when the student is outside the lecture's
\* cohort: it answers 200 and the record is stored.
C10_ManualMarkBypassesEligibility ==
    [][\A by \in Accounts, l \in LectureIds, s \in UserIds, st \in Statuses :
         (/\ markAttendanceManually(by, l, s, st)
          /\ l \in 1 .. Len(lectures)
          /\ (now > lectures[l].expiresAt \/ OutsideCohort(l, s)))
         => /\ last'.status = 200
            /\ last'.message = MsgManual
            /\ last'.data \in attendance'
            /\ last'.data.lecture = l /\ last'.data.student = s]_vars

\* A manual mark has succeeded for an expired lecture and a student whose
\* profile is of another semester
C10_MarkedExpiredOutsider ==
    /\ last.op = "mark"
    /\ last.status = 200
    /\ last.data \in attendance
    /\ now > lectures[last.data.lecture].expiresAt
    /\ \E d \in students :
          d._id = last.data.student /\ d.semester # lectures[last.data.lecture].semester

----------------------------------------------------------------------------
(* Properties of the recorder under concurrent requests *)

\* C1: for every lecture and student there is at most one Attendance record,
\* whatever the interleaving of scans and manual marks.
C1_AtMostOneRecord ==
    \A l \in LectureIds, s \in UserIds :
        Cardinality({a \in attendance : a.lecture = l /\ a.student = s}) <= 1

\* Two scans of one student passed the duplicate check before either inserted;
\* both have inserted since, and one record stands.
C1_SecondInsertRefused ==
    /\ last.op = "scan"
    /\ last.status = 500
    /\ \A r \in 1 .. MaxReqs : reqs[r] = Idle
    /\ Cardinality(attendance) = 1
    /\ \A a \in attendance : a.deviceInfo # Undefined

ClaimedLectureStart(lec) ==
    (lec.date \div DayMs) * DayMs + (lec.startTime[1] * 60 + lec.startTime[2]) * MinuteMs

\* C7: the record an admitted scan creates is 'late' exactly when the scan time
\* is more than 15 minutes after lectureStart and 'present' otherwise; it is
\* never 'absent'.
C7_LateAfterFifteenMinutes ==
    [][\A r \in 1 .. MaxReqs :
         (ScanInsert(r) /\ last'.status = 201)
         => LET start == ClaimedLectureStart(lectures[reqs[r].lecture])
            IN  /\ last'.data \in attendance'
                /\ last'.data \notin attendance
                /\ last'.data.markedAt = now
                /\ (now - start > 15 * MinuteMs) => last'.data.status = "late"
                /\ (now - start <= 15 * MinuteMs) => last'.data.status = "present"
                /\ last'.data.status # "absent"]_vars

\* A scan exactly 15 minutes after lectureStart has been recorded as present
C7_PresentAtFifteenMinutes ==
    /\ last.op = "scan"
    /\ last.status = 201
    /\ last.data.status = "present"
    /\ last.data.markedAt - ClaimedLectureStart(lectures[last.data.lecture]) = 15 * MinuteMs

\* C8: a scan of a student who has a record for the lecture is rejected as
\* already marked with that record as data, and the collection, so the record's
\* status and markedAt, stay as they were.
C8_RepeatScanAlreadyMarked ==
    [][\A r \in 1 .. MaxReqs, l \in LectureIds, s \in UserIds, dev \in DeviceInputs :
         (/\ ScanFind(r, l, s, dev)
          /\ \E a \in attendance : a.lecture = l /\ a.student = s)
         => /\ last'.status = 400
            /\ last'.message = MsgAlready
            /\ last'.data \in attendance
            /\ last'.data.lecture = l /\ last'.data.student = s
            /\ attendance' = attendance
            /\ reqs' = reqs]_vars

\* A later scan has been answered with the record the student's first scan created
C8_RepeatScanRejected ==
    /\ last.op = "scan"
    /\ last.status = 400
    /\ last.message = MsgAlready
    /\ last.data \in attendance
    /\ last.data.deviceInfo # Undefined
    /\ last.data.markedAt < now

----------------------------------------------------------------------------
(* Properties of the teacher routes *)

\* The teacher by did not issue lecture l
NotIssuer(by, l) == by \in TeacherIds /\ lectures[l].teacher # by

\* C11: a request of a teacher who did not issue a record's lecture to update,
\* re-mark or delete the record leaves the record as it was.
C11_OnlyIssuerOrAdminChanges ==
    [][\A by \in TeacherIds, a \in attendance :
         (/\ NotIssuer(by, a.lecture)
          /\ \/ \E st \in Statuses : updateAttendance(by, a._id, st)
             \/ deleteAttendance(by, a._id)
             \/ \E st \in Statuses : markAttendanceManually(by, a.lecture, a.student, st))
         => a \in attendance']_vars

\* validMinutes is given and is not a positive integer
BadDuration(vm) == vm.given /\ (vm.halves <= 0 \/ vm.halves % 2 # 0)

\* C12: generateLectureQR with a validMinutes that is given but is zero,
\* negative or not an integer is rejected as a client error and creates no
\* Lecture.
C12_InvalidDurationRejected ==
    [][\A by \in Staff, rq \in IssuerRequests :
         (/\ generateLectureQR(by, 1, 1, rq[1], <<0, 0>>, rq[2], rq[3], "DS")
          /\ by \in teachers
          /\ BadDuration(rq[2]))
         => (lectures' = lectures /\ last'.status = 400)]_vars

\* Twice the validity window in ms a request asks for: validMinutes, or 60
ClaimedWindowTwice(vm) ==
    IF vm.given THEN vm.halves * MinuteMs ELSE 2 * 60 * MinuteMs

\* C13: the expiresAt stored with a created lecture is the creation time plus
\* validMinutes minutes (60 when omitted), the payload carries the same
\* instant, and it is later than the creation time.
C13_ExpiresAtIsCreationPlusWindow ==
    [][\A by \in Staff, rq \in IssuerRequests :
         (/\ generateLectureQR(by, 1, 1, rq[1], <<0, 0>>, rq[2], rq[3], "DS")
          /\ last'.status = 201)
         => LET lec == lectures'[Len(lectures')]
            IN  /\ 2 * lec.expiresAt = 2 * now + ClaimedWindowTwice(rq[2])
                /\ lec.qrCode.expiresAt = lec.expiresAt
                /\ lec.expiresAt > now]_vars

\* C14: a successful generateLectureQR adds exactly one lecture, active and of
\* section 'A' when the request names none, and leaves the attendance records
\* and the lectures that existed as they were.
C14_GenerateAddsOneLecture ==
    [][\A by \in Staff, rq \in IssuerRequests :
         (/\ generateLectureQR(by, 1, 1, rq[1], <<0, 0>>, rq[2], rq[3], "DS")
          /\ last'.status = 201)
         => /\ Len(lectures') = Len(lectures) + 1
            /\ SubSeq(lectures', 1, Len(lectures)) = lectures
            /\ lectures'[Len(lectures')].isActive
            /\ lectures'[Len(lectures')].section
                  = (IF rq[1] = Undefined THEN "A" ELSE rq[1])
            /\ attendance' = attendance]_vars

\* A second lecture, of the default section, was just created while an
\* attendance record of the first one existed
C14_SecondLectureBesideRecords ==
    /\ last.op = "generate" /\ last.status = 201
    /\ Len(lectures) = 2
    /\ lectures[2].section = "A"
    /\ lectures[1].section = "B"
    /\ \E a \in attendance : a.lecture = 1

\* C15: generateLectureQR called by an account of the teacher routes that has
\* no Teacher profile (an admin) is answered 404 "Teacher profile not found"
\* and creates no lecture.
C15_NoProfileNoLecture ==
    [][\A by \in Staff, rq \in IssuerRequests :
         (/\ generateLectureQR(by, 1, 1, rq[1], <<0, 0>>, rq[2], rq[3], "DS")
          /\ by \notin teachers)
         => (/\ last'.status = 404
             /\ last'.message = MsgNoTeacher
             /\ lectures' = lectures)]_vars

\* The admin, who has no Teacher profile, was just refused while a teacher's
\* lecture existed
C15_AdminRefused ==
    /\ last.op = "generate" /\ last.status = 404
    /\ AdminId \in users /\ AdminId \notin teachers
    /\ Len(lectures) = 1

C18_IssuedPayloadActiveWindow ==
    [][\A u \in UserIds, i \in 1 .. Len(lectures), dev \in DeviceInputs :
         scanAttendance(u, IssuedPayload(i), dev)
         => /\ last'.status = 201
                 => (lectures[i].isActive /\ now < lectures[i].expiresAt)
            /\ now = lectures[i].expiresAt
                 => (last'.message = MsgExpired /\ attendance' = attendance)]_vars

\* The fields of a lecture that are fixed at its creation
LectureIdentity(lec) ==
    [qrCodeData |-> lec.qrCodeData, expiresAt |-> lec.expiresAt, teacher |-> lec.teacher,
     branch |-> lec.branch, semester |-> lec.semester, section |-> lec.section,
     subject |-> lec.subject]

\* C19: no step of the system changes an existing lecture's token, expiresAt,
\* teacher, branch, semester, section or subject, and none deletes a lecture;
\* updateBranch leaves the subject snapshot of every lecture as it was.
C19_LecturesImmutable ==
    [][/\ Len(lectures') >= Len(lectures)
       /\ \A i \in 1 .. Len(lectures) :
             LectureIdentity(lectures'[i]) = LectureIdentity(lectures[i])]_vars

\* A lecture keeps subject DS after updateBranch changed the subject of its
\* branch to OS, and after a record was written for it
C19_SnapshotSurvivesCatalogueEdit ==
    /\ Len(lectures) = 1
    /\ lectures[1].subject = "DS"
    /\ lectures[1].branch \in branches
    /\ catalogue[lectures[1].branch] = "OS"
    /\ \E a \in attendance : a.lecture = 1 /\ a.markedAt > lectures[1].date

\* C20: a scanAttendance request that ends in a rejection leaves the attendance
\* records and the lectures exactly as they were, and a scan creates a record
\* only when the request fails none of the eight checks.
C20_RejectedScanChangesNothing ==
    [][last'.op = "scan" =>
       \A in \in ScanInputs :
         scanAttendance(in[1], in[2], in[3])
         => /\ last'.status # 201
                 => (attendance' = attendance /\ lectures' = lectures)
            /\ attendance' # attendance
                 => EarliestFailure(in[1], in[2]) = MsgMarked]_vars

\* A scan of a student of the lecture's branch and semester was just rejected
\* at the section check while a record of that lecture existed
C20_RejectedBesideRecords ==
    /\ last.op = "scan" /\ last.message = MsgSection
    /\ Len(lectures) = 1
    /\ \E a \in attendance : a.lecture = 1

----------------------------------------------------------------------------
(* Reports: getAttendanceSummary of the student routes *)

\* A query condition { section: want } on a lecture whose section is have.  An
\* undefined value is sent to the database as null, which matches only
\* documents without the field; every lecture has a section.
SectionFilter(want, have) == want # Undefined /\ want = have

\* Lecture.find({ branch, semester, section }) of the student's profile
SummaryLectures(stu) ==
    {i \in 1 .. Len(lectures) :
        /\ lectures[i].branch = StudentGet(stu, "branch")
        /\ lectures[i].semester = StudentGet(stu, "semester")
        /\ SectionFilter(StudentGet(stu, "section"), lectures[i].section)}

\* Attendance.find({ student: student._id })
SummaryRecords(stu) == {a \in attendance : a.student = stu._id}

\* records.filter((a) => a.status === st).length
CountStatus(recs, st) == Cardinality({a \in recs : a.status = st})

\* total > 0 ? Math.round((n / total) * 100) : 0, halves rounded up
RoundPercent(n, total) ==
    IF total > 0 THEN (200 * n + total) \div (2 * total) ELSE 0

SummaryBlock(total, present, late) ==
    [totalLectures |-> total, present |-> present, late |-> late,
     absent |-> total - present - late,
     percentage |-> RoundPercent(present + late, total)]

\* subjectSummary[code]: the lectures found with that subject code, and the
\* student's records whose lecture is among the lectures found
SubjectSummary(stu, code) ==
    LET lecs == {i \in SummaryLectures(stu) : lectures[i].subject = code}
        recs == {a \in SummaryRecords(stu) : a.lecture \in lecs}
    IN  SummaryBlock(Cardinality(lecs), CountStatus(recs, "present"),
                     CountStatus(recs, "late"))

\* overall: all lectures found, and all records of the student
OverallSummary(stu) ==
    SummaryBlock(Cardinality(SummaryLectures(stu)),
                 CountStatus(SummaryRecords(stu), "present"),
                 CountStatus(SummaryRecords(stu), "late"))

SummaryData(stu) ==
    [subjects |-> [code \in {lectures[i].subject : i \in SummaryLectures(stu)}
                     |-> SubjectSummary(stu, code)],
     overall |-> OverallSummary(stu)]

\* getAttendanceSummary; populate("branch") of a profile whose Branch document
\* is gone gives null, and student.branch._id throws
getAttendanceSummary(u) ==
    /\ Ready
    /\ u \in users
    /\ RoleOf(u) = "student"
    /\ last' = IF ~HasProfile(u)
                 THEN Response("summary", 404, MsgNoProfile, NoRecord)
               ELSE IF StudentGet(ProfileOf(u), "branch") \notin branches
                 THEN Response("summary", 500, MsgTypeError, NoRecord)
               ELSE Response("summary", 200, "", SummaryData(ProfileOf(u)))
    /\ UNCHANGED <<accountVars, now, ticks, users, students, regSection, branches, lectures,
                   attendance, nextId, reqs>>

\* A query condition { section: want } on a Student document.  studentSchema
\* has no section path: with strictQuery the condition is removed from the
\* filter, without it the condition is sent and compared with the stored
\* document.  Which of the two applies depends on the Mongoose release.
StudentSectionFilter(doc, want, strictQuery) ==
    strictQuery \/ ("section" \in DOMAIN doc /\ doc.section = want)

\* Student.find({ branch, semester, section }) of the lecture
RosterStudents(lec, strictQuery) ==
    {d \in students :
        /\ d.branch = lec.branch
        /\ d.semester = lec.semester
        /\ StudentSectionFilter(d, lec.section, strictQuery)}

\* Attendance.find({ lecture: lecture._id })
LectureRecords(l) == {a \in attendance : a.lecture = l}

\* attendanceList: for each student found, the status of its record or absent
Roster(l, strictQuery) ==
    [id \in {d._id : d \in RosterStudents(lectures[l], strictQuery)} |->
        IF AttendanceOf(attendance, l, id) = {} THEN "absent"
        ELSE RecordOf(AttendanceOf(attendance, l, id)).status]

RosterSummary(l, strictQuery) ==
    LET total == Cardinality(RosterStudents(lectures[l], strictQuery))
    IN  [total |-> total,
         present |-> CountStatus(LectureRecords(l), "present"),
         late |-> CountStatus(LectureRecords(l), "late"),
         absent |-> total - Cardinality(LectureRecords(l))]

\* getLectureAttendance; populate of a missing Branch or Student document gives
\* null, and reading its _id throws
getLectureAttendance(by, l, strictQuery) ==
    /\ Ready
    /\ MayUseTeacherRoutes(by)
    /\ last' = IF ~LectureExists(l)
                 THEN Response("roster", 404, MsgLectureMissing, NoRecord)
               ELSE IF PopulatedBranch(lectures[l]) = 0
                         \/ \E a \in LectureRecords(l) : \A d \in students : d._id # a.student
                 THEN Response("roster", 500, MsgTypeError, NoRecord)
               ELSE Response("roster", 200, "",
                             [attendance |-> Roster(l, strictQuery),
                              summary |-> RosterSummary(l, strictQuery)])
    /\ UNCHANGED <<accountVars, now, ticks, users, students, regSection, branches, lectures,
                   attendance, nextId, reqs>>

MaxReportLectures == 2

\* The requests that build and change what the reports read
NextReports ==
    \/ Deliver
    \/ \E u \in UserIds \cup SpecStaff, sec \in SectionInputs : register(u, 1, 0, sec)
    \/ \E subj \in SpecSubjects : createBranch(1, subj)
    \/ \E u \in UserIds, sem \in Semesters : updateUser(u, "student", 1, sem)
    \/ /\ Len(lectures) < MaxReportLectures
       /\ \E by \in SpecStaff, sec \in SectionInputs, subj \in SubjectNames :
             generateLectureQR(by, 1, 1, sec, <<0, 0>>, NoMinutes, 1, subj)
    \/ \E u \in UserIds, i \in 1 .. Len(lectures), dev \in DeviceInputs :
          scanAttendance(u, IssuedPayload(i), dev)
    \/ \E by \in SpecStaff, l \in 1 .. MaxReportLectures, s \in UserIds, st \in Statuses :
          markAttendanceManually(by, l, s, st)
    \/ \E by \in SpecStaff, id \in 1 .. MaxRecords, st \in Statuses :
          updateAttendance(by, id, st)
    \/ \E by \in SpecStaff, id \in 1 .. MaxRecords : deleteAttendance(by, id)
    \/ \E u \in UserIds : getAttendanceSummary(u)
    \/ \E by \in SpecStaff, l \in 1 .. MaxReportLectures, strictQuery \in BOOLEAN :
          getLectureAttendance(by, l, strictQuery)

SpecReports == Init /\ [][NextReports]_vars

----------------------------------------------------------------------------
(* The route middleware: protect and authorize in front of the controllers *)

\* Paths of userSchema.  The schema is strict: a path that is not listed is
\* dropped on create and update and has no getter on a document.
UserSchemaPaths == {"_id", "name", "email", "password", "role", "createdAt", "updatedAt"}

\* req.user.isActive is truthy: the path must exist to hold true
UserIsActive(u) == "isActive" \in UserSchemaPaths

MsgNotAuthorized == "Not authorized to access this route"
MsgUserNotFound == "User not found"
MsgDeactivated == "User account is deactivated"
MsgRole == "User role is not authorized to access this route"

\* Bearer tokens of a request: none, one that does not verify, and the token
\* generateToken signed for account id, which verifies
NoToken == [kind |-> "none", id |-> 0]
BadToken == [kind |-> "invalid", id |-> 0]
TokenOf(u) == [kind |-> "valid", id |-> u]
TokenInputs == {NoToken, BadToken} \cup {TokenOf(u) : u \in Accounts}

Pass == [status |-> 0, message |-> ""]

\* protect: the status and message it answers, or Pass when it calls next()
protect(tok) ==
    IF tok.kind # "valid" THEN [status |-> 401, message |-> MsgNotAuthorized]
    ELSE IF tok.id \notin users THEN [status |-> 401, message |-> MsgUserNotFound]
    ELSE IF ~UserIsActive(tok.id) THEN [status |-> 401, message |-> MsgDeactivated]
    ELSE Pass

\* authorize(...roles), run after protect has set req.user
authorize(roles, u) ==
    IF RoleOf(u) \notin roles THEN [status |-> 403, message |-> MsgRole] ELSE Pass

\* router.use(authorize(...)) of the three routers
Routes == {"student", "teacher", "admin"}
RouteRoles(route) ==
    IF route = "student" THEN {"student"}
    ELSE IF route = "teacher" THEN {"teacher", "admin"}
    ELSE {"admin"}

\* router.use(protect); router.use(authorize(...)): the first answer wins
Gate(route, tok) ==
    IF protect(tok) # Pass THEN protect(tok) ELSE authorize(RouteRoles(route), tok.id)

\* The controllers mounted on a router, run for account u
Controller(route, u) ==
    IF route = "student"
      THEN \/ \E qr \in QrInputs, dev \in DeviceInputs : scanAttendance(u, qr, dev)
           \/ getAttendanceSummary(u)
    ELSE IF route = "teacher"
      THEN \/ /\ Len(lectures) < MaxLectures
              /\ \E sec \in SectionInputs, subj \in SpecSubjects :
                    generateLectureQR(u, 1, 1, sec, <<0, 0>>, NoMinutes, 1, subj)
           \/ \E l \in LectureIds, s \in UserIds, st \in Statuses :
                 markAttendanceManually(u, l, s, st)
           \/ \E id \in 1 .. MaxRecords, st \in Statuses : updateAttendance(u, id, st)
           \/ \E id \in 1 .. MaxRecords : deleteAttendance(u, id)
    ELSE \/ \E v \in Accounts, b \in BranchInputs, sec \in SectionInputs :
               createUser(v, b, 0, sec)
         \/ \E v \in Accounts : deleteUser(v)
         \/ \E b \in BranchIds, subj \in SpecSubjects : createBranch(b, subj)
         \/ \E b \in BranchIds : deleteBranch(b)

\* A request to a route of a protected router
routeRequest(route, tok) ==
    /\ Ready
    /\ IF Gate(route, tok) # Pass
         THEN /\ last' = Response(route, Gate(route, tok).status, Gate(route, tok).message,
                                  NoRecord)
              /\ UNCHANGED <<accountVars, now, ticks, users, students, regSection, branches,
                             lectures, attendance, nextId, reqs>>
         ELSE Controller(route, tok.id)

\* The public register route and requests to the protected routers
NextGate ==
    \/ Deliver
    \/ Tick
    \/ \E u \in Accounts, b \in BranchInputs, sec \in SectionInputs : register(u, b, 0, sec)
    \/ \E route \in Routes, tok \in TokenInputs : routeRequest(route, tok)

SpecGate == Init /\ [][NextGate]_vars

----------------------------------------------------------------------------
(* Properties of the QR payload *)

\* The scan route with the requests that prepare it: accounts, a branch, a
\* lecture, manual marks, time
NextScanner ==
    \/ Deliver
    \/ Tick
    \/ \E u \in UserIds \cup SpecStaff, b \in BranchInputs, sem \in SemesterInputs,
           sec \in SectionInputs :
          register(u, b, sem, sec)
    \/ \E b \in BranchIds, subj \in SpecSubjects : createBranch(b, subj)
    \/ /\ Len(lectures) < MaxLectures
       /\ \E by \in SpecStaff, b \in BranchInputs, sem \in Semesters, sec \in SectionInputs,
              st \in StartTimes, vm \in ValidMinutesInputs, code \in SpecTokens,
              subj \in SpecSubjects :
             generateLectureQR(by, b, sem, sec, st, vm, code, subj)
    \/ \E u \in UserIds, qr \in QrInputs, dev \in DeviceInputs : scanAttendance(u, qr, dev)
    \/ \E by \in SpecStaff, l \in LectureIds, s \in StudentIdInputs, st \in StatusInputs :
          markAttendanceManually(by, l, s, st)

SpecScanner == Init /\ [][NextScanner]_vars

\* C21: a qrData that does not parse to a QR object (not JSON, or JSON that is
\* not an object, such as null) is answered 400 "Invalid QR code format", never
\* 500, and creates no record.
C21_MalformedPayloadIs400 ==
    [][\A in \in ScanInputs :
         (scanAttendance(in[1], in[2], in[3]) /\ in[2].kind # "object")
         => (/\ last'.status = 400
             /\ last'.message = MsgInvalidQr
             /\ attendance' = attendance)]_vars

\* C22: fields of the payload other than lectureCode and expiresAt are ignored:
\* a scan by the same student in the same state with a payload that differs
\* only in another field (the semester it names) gives the same response and
\* the same store.
C22_ExtraFieldsIgnored ==
    [][last'.op = "scan" =>
         \A u \in UserIds, qr \in QrInputs, dev \in DeviceInputs, sem \in Semesters :
           (qr.kind = "object" /\ scanAttendance(u, qr, dev))
           => scanAttendance(u, [qr EXCEPT !.semester = sem], dev)]_vars

\* A scan reached the semester check and was refused there: payloads naming the
\* student's own semester and payloads naming the lecture's were both sent
C22_RefusedAtSemester ==
    /\ last.op = "scan" /\ last.message = MsgSemester
    /\ Len(lectures) = 1
    /\ \E d \in students : d.semester # lectures[1].semester

----------------------------------------------------------------------------
(* Properties of the reports *)

\* The lectures of the cohort student u registered in: its branch, semester
\* and the section its registration named
CohortOf(u) ==
    {i \in 1 .. Len(lectures) :
        \E d \in StudentOf(u) :
            /\ lectures[i].branch = d.branch
            /\ lectures[i].semester = d.semester
            /\ lectures[i].section = regSection[u]}

\* The number of cohort lectures for which student u has a record of status st
CohortCount(u, st) ==
    Cardinality({i \in CohortOf(u) :
                    \E a \in attendance, d \in StudentOf(u) :
                        a.lecture = i /\ a.student = d._id /\ a.status = st})

\* C23: every percentage of a summary is round(100 * (present + late) /
\* totalLectures), 0 when totalLectures = 0, and the overall block of a
\* student counts the lectures of the student's cohort and the present and late
\* records the student has for them (10 lectures, 6 present, 2 late give
\* present 6, late 2, absent 2, percentage 80).
C23_SummaryOfCohort ==
    [][\A u \in UserIds :
         (getAttendanceSummary(u) /\ last'.status = 200)
         => LET o == last'.data.overall
                total == Cardinality(CohortOf(u))
                present == CohortCount(u, "present")
                late == CohortCount(u, "late")
            IN  /\ o.percentage = RoundPercent(o.present + o.late, o.totalLectures)
                /\ \A c \in DOMAIN last'.data.subjects :
                      LET sb == last'.data.subjects[c]
                      IN  sb.percentage = RoundPercent(sb.present + sb.late, sb.totalLectures)
                /\ o.totalLectures = total
                /\ o.present = present
                /\ o.late = late
                /\ o.absent = total - present - late
                /\ o.percentage = RoundPercent(present + late, total)]_vars

\* C24: the status of every attendance record is present, late or absent.
C24_StatusInEnum == \A a \in attendance : a.status \in Statuses

----------------------------------------------------------------------------
(* Properties of the route middleware *)

\* C25: a request without a token that verifies is answered 401, a request of
\* an account whose role the route does not allow is answered 403, and in both
\* cases no lecture and no attendance record is created, changed or deleted.
C25_GateAnswers401And403 ==
    [][\A route \in Routes, tok \in TokenInputs :
         routeRequest(route, tok)
         => /\ tok.kind # "valid"
                 => (last'.status = 401 /\ lectures' = lectures
                       /\ attendance' = attendance)
            /\ (tok.kind = "valid" /\ tok.id \in users
                  /\ RoleOf(tok.id) \notin RouteRoles(route))
                 => (last'.status = 403 /\ lectures' = lectures
                       /\ attendance' = attendance)]_vars

\* C26: a request whose token verifies and whose account exists (and was not
\* deactivated: no request of this specification deactivates an account) is
\* never answered 401.
C26_ValidTokenNever401 ==
    [][\A route \in Routes, u \in Accounts :
         (routeRequest(route, TokenOf(u)) /\ u \in users)
         => last'.status # 401]_vars

\* The sum of the present counts, and of the late counts, of the subject blocks
RECURSIVE SumPresent(_, _)
SumPresent(subjects, codes) ==
    IF codes = {} THEN 0
    ELSE LET c == CHOOSE x \in codes : TRUE
         IN  subjects[c].present + SumPresent(subjects, codes \ {c})

RECURSIVE SumLate(_, _)
SumLate(subjects, codes) ==
    IF codes = {} THEN 0
    ELSE LET c == CHOOSE x \in codes : TRUE
         IN  subjects[c].late + SumLate(subjects, codes \ {c})

\* C28: in every summary the overall block has present + late + absent =
\* totalLectures, absent >= 0 and 0 <= percentage <= 100, and its present and
\* late counts are the sums of the per-subject counts.
C28_SummaryConsistent ==
    [][\A u \in UserIds :
         (getAttendanceSummary(u) /\ last'.status = 200)
         => LET o == last'.data.overall
                sb == last'.data.subjects
            IN  /\ o.present + o.late + o.absent = o.totalLectures
                /\ o.absent >= 0
                /\ o.percentage >= 0 /\ o.percentage <= 100
                /\ o.present = SumPresent(sb, DOMAIN sb)
                /\ o.late = SumLate(sb, DOMAIN sb)]_vars

\* The students of the cohort of lecture l: its branch, its semester and the
\* section named at registration
CohortStudents(l) ==
    {d._id : d \in {d \in students : /\ d.branch = lectures[l].branch
                                       /\ d.semester = lectures[l].semester
                                       /\ regSection[d.user] = lectures[l].section}}

RosterCount(roster, st) == Cardinality({id \in DOMAIN roster : roster[id] = st})

\* C29: the roster of a lecture has exactly one entry per student of the
\* lecture's cohort, and the summary agrees with it: present + late + absent =
\* total, absent >= 0, and present, late and absent are the numbers of roster
\* entries with that status.
C29_RosterConsistent ==
    [][\A by \in SpecStaff, l \in 1 .. MaxReportLectures, strictQuery \in BOOLEAN :
         (getLectureAttendance(by, l, strictQuery) /\ last'.status = 200)
         => LET roster == last'.data.attendance
                sm == last'.data.summary
            IN  /\ DOMAIN roster = CohortStudents(l)
                /\ sm.present + sm.late + sm.absent = sm.total
                /\ sm.absent >= 0
                /\ sm.present = RosterCount(roster, "present")
                /\ sm.late = RosterCount(roster, "late")
                /\ sm.absent = RosterCount(roster, "absent")]_vars

----------------------------------------------------------------------------
(* Properties of concurrent manual marks *)

\* C27: a manual mark of an existing lecture with a status of the enum that
\* completes, whatever scans and manual marks for the same pair ran between its
\* lookup and its write, answers success and leaves the pair's record with its
\* status.
C27_ManualMarkNeverFailsOnDuplicate ==
    [][\A r \in 1 .. MaxReqs :
         (MarkSave(r) /\ reqs[r].status \in Statuses)
         => /\ last'.status = 200
            /\ \E a \in attendance' :
                  /\ a.lecture = reqs[r].lecture
                  /\ a.student = reqs[r].student
                  /\ a.status = reqs[r].status]_vars

----------------------------------------------------------------------------
(* Referential integrity *)

\* C30: every attendance record references an existing lecture and an existing
\* student profile.
C30_RecordsReferenceExisting ==
    \A a \in attendance :
        /\ a.lecture \in 1 .. Len(lectures)
        /\ \E d \in students : d._id = a.student

====
